---- MODULE Spec2Model ----
(***************************************************************************)
(* The analytics query layer of kismat-analytics: the tRPC router          *)
(* src/server/api/routers/analytics.ts over the tables of                  *)
(* src/server/db/schema.ts, and the /analytics page that guards the        *)
(* dashboard.                                                              *)
(*                                                                         *)
(* Time is counted in seconds (the source counts milliseconds; every       *)
(* constant of the source is a whole number of seconds, so                 *)
(* N * 24 * 60 * 60 * 1000 ms is N * 24 * 60 * 60 s here).                 *)
(*                                                                         *)
(* A table is a bag of rows without its generated identity column: the     *)
(* multiplicity of a row is the number of rows that differ only in id.     *)
(* No query reads an id except to count it or to group by it.              *)
(***************************************************************************)
EXTENDS Integers, Sequences, FiniteSets, Bags, TLC

\* ------------------------------------------------------------------ bounds

\* The clock's first value, in days since the epoch.
StartDay == 400
\* Spec: the most users, the most writes to the other tables, the most clock
\* ticks.
MaxUsers == 2
MaxWrites == 1
MaxTicks == 1
\* SpecPeriod: the most writes.
PeriodMaxWrites == 2
\* SpecFunnel: the most users and writes.
FunnelMaxUsers == 2
FunnelMaxWrites == 3
\* SpecLimit: the days before today on which user 1 sent 5 messages, and the
\* most writes.
LimitDays == 50
LimitMaxWrites == 2
\* SpecRevenue: the most users and writes.
RevenueMaxUsers == 3
RevenueMaxWrites == 3
\* SpecHealth: the kinds of error logged before the first step, and the most
\* writes.
HealthErrors == 10
HealthMaxWrites == 2
\* SpecEngage: the users with messages before the first step, and the most
\* writes.
EngageUsers == 20
EngageMaxWrites == 2
\* SpecAuth: the most users and writes.
AuthMaxUsers == 2
AuthMaxWrites == 3
\* SpecFailure: the most users and writes.
FailureMaxUsers == 1
FailureMaxWrites == 2
\* SpecSnapshot: the most users and writes.
SnapshotMaxUsers == 1
SnapshotMaxWrites == 2
\* SpecGrowth: the most users. SpecGrowthWeek: the most users.
GrowthMaxUsers == 14
GrowthWeekMaxUsers == 42
\* SpecPayment: the most users and writes.
PaymentMaxUsers == 1
PaymentMaxWrites == 3
\* SpecVolume: the most users and writes.
VolumeMaxUsers == 1
VolumeMaxWrites == 3
\* SpecView: the most users and writes.
ViewMaxUsers == 1
ViewMaxWrites == 2
\* SpecSeg: the most users and writes.
SegMaxUsers == 2
SegMaxWrites == 4

\* ----------------------------------------------------------------- helpers

RECURSIVE SumFn(_)
\* The sum of the values of a function with a finite domain.
SumFn(f) ==
    IF DOMAIN f = {} THEN 0
    ELSE LET x == CHOOSE y \in DOMAIN f : TRUE
         IN f[x] + SumFn([y \in DOMAIN f \ {x} |-> f[y]])

\* SQL NULL and a present value of a nullable column.
Null == {}
Some(v) == {v}

\* The rows of table B (a bag) that satisfy Keep, as a bag.
Where(B, Keep(_)) ==
    LET S == {r \in DOMAIN B : Keep(r)} IN [r \in S |-> B[r]]

\* count(*) of a bag of rows.
CountRows(B) == SumFn(B)

\* INSERT of n rows that differ only in id.
InsertRows(B, row, n) == B (+) (row :> n)

\* -------------------------------------------------------- JavaScript numbers

\* A JavaScript number that a ratio of counts can be: a rational n/d (d > 0),
\* NaN or +Infinity.
Num(i) == [kind |-> "finite", n |-> i, d |-> 1]
NaN == [kind |-> "NaN", n |-> 0, d |-> 1]
Infinity == [kind |-> "Infinity", n |-> 0, d |-> 1]

\* x / k for a number x >= 0 and an integer k >= 0: 0/0 is NaN, x/0 is Infinity.
JsDiv(x, k) ==
    IF x.kind # "finite" THEN x
    ELSE IF k = 0 THEN (IF x.n = 0 THEN NaN ELSE Infinity)
    ELSE [kind |-> "finite", n |-> x.n, d |-> x.d * k]

\* x * k for a number x >= 0 and an integer k > 0.
JsMul(x, k) ==
    IF x.kind # "finite" THEN x
    ELSE [kind |-> "finite", n |-> x.n * k, d |-> x.d]

\* The strings the router returns for a ratio: the literal "0" of a guard, or
\* Number.prototype.toFixed(2), which prints NaN and Infinity by name. A
\* finite value is kept as its number of hundredths, rounded to the nearest
\* (the larger at an exact tie).
Literal0 == [kind |-> "0", h |-> 0]
toFixed2(x) ==
    IF x.kind = "finite"
    THEN [kind |-> "fixed2", h |-> (200 * x.n + x.d) \div (2 * x.d)]
    ELSE [kind |-> x.kind, h |-> 0]

\* ------------------------------------------------------------------- state

VARIABLES
    clock,          \* the wall clock, in seconds
    users,          \* User: the set of ids
    accounts,       \* Account: bag of [userId, provider]
    messageLogs,    \* MessageLog: bag of [userId, createdAt]
    requestLogs,    \* RequestLog: bag of [action, statusCode, success, error, createdAt]
    userCredits,    \* UserCredit: userId -> balance (userId is the primary key)
    paymentIntents, \* PaymentIntent: bag of [userId, tier, status, providerPaymentId, createdAt, completedAt]
    paymentRecords, \* PaymentRecord: bag of [userId, providerPaymentId, status, amountCents, createdAt]
    res,            \* the response of the latest request
    writes,         \* the number of writes to the tables other than User
    selectedPeriod  \* the period selected in the User Analytics view

tables == <<users, accounts, messageLogs, requestLogs, userCredits,
            paymentIntents, paymentRecords>>
vars == <<clock, users, accounts, messageLogs, requestLogs, userCredits,
          paymentIntents, paymentRecords, res, writes, selectedPeriod>>

Day == 24 * 60 * 60
Now0 == StartDay * Day

\* No request has been answered since the store or the clock last changed.
NoResponse ==
    [op |-> "none", session |-> FALSE, input |-> "none", status |-> "none",
     reads |-> 0, range |-> {}, body |-> [none |-> TRUE]]

\* ------------------------------------------------ the writers and the clock
\* The tables are written by the application the dashboard observes, never by
\* the router. A write or a tick ends the life of the latest response.

\* A user signs up: User.id is the primary key.
InsertUser(maxUsers) ==
    /\ Cardinality(users) < maxUsers
    /\ users' = users \cup {Cardinality(users) + 1}
    /\ res' = NoResponse
    /\ UNCHANGED <<selectedPeriod, clock, accounts, messageLogs, requestLogs, userCredits,
                   paymentIntents, paymentRecords, writes>>

\* An OAuth account is linked: userId references User.id.
InsertAccount(maxWrites, Providers) ==
    /\ writes < maxWrites
    /\ writes' = writes + 1
    /\ \E u \in users, p \in Providers :
          accounts' = InsertRows(accounts, [userId |-> u, provider |-> p], 1)
    /\ res' = NoResponse
    /\ UNCHANGED <<selectedPeriod, clock, users, messageLogs, requestLogs, userCredits,
                   paymentIntents, paymentRecords>>

\* Messages are logged: n of one user at one of the instants Times.
InsertMessageLog(maxWrites, Times, Counts) ==
    /\ writes < maxWrites
    /\ writes' = writes + 1
    /\ \E u \in users, t \in Times, n \in Counts :
          messageLogs' = InsertRows(messageLogs, [userId |-> u, createdAt |-> t], n)
    /\ res' = NoResponse
    /\ UNCHANGED <<selectedPeriod, clock, users, accounts, requestLogs, userCredits,
                   paymentIntents, paymentRecords>>

\* An API request is logged. Outcomes holds [statusCode, success, error].
InsertRequestLog(maxWrites, Actions, Outcomes, Times, Counts) ==
    /\ writes < maxWrites
    /\ writes' = writes + 1
    /\ users # {}
    /\ \E a \in Actions, o \in Outcomes, t \in Times, n \in Counts :
          requestLogs' = InsertRows(requestLogs,
              [action |-> a, statusCode |-> o.statusCode, success |-> o.success,
               error |-> o.error, createdAt |-> t], n)
    /\ res' = NoResponse
    /\ UNCHANGED <<selectedPeriod, clock, users, accounts, messageLogs, userCredits,
                   paymentIntents, paymentRecords>>

\* A user's credit row is created: UserCredit.userId is the primary key.
InsertUserCredit(maxWrites, Balances) ==
    /\ writes < maxWrites
    /\ writes' = writes + 1
    /\ \E u \in users \ DOMAIN userCredits, b \in Balances :
          userCredits' = [x \in DOMAIN userCredits \cup {u} |->
                             IF x = u THEN b ELSE userCredits[x]]
    /\ res' = NoResponse
    /\ UNCHANGED <<selectedPeriod, clock, users, accounts, messageLogs, requestLogs,
                   paymentIntents, paymentRecords>>

\* A payment intent is created. Kinds holds [tier, status, providerPaymentId,
\* completedIn]: completedIn is Null, or Some(seconds from creation to completion).
InsertPaymentIntent(maxWrites, Kinds, Times) ==
    /\ writes < maxWrites
    /\ writes' = writes + 1
    /\ \E u \in users, k \in Kinds, t \in Times :
          paymentIntents' = InsertRows(paymentIntents,
              [userId |-> u, tier |-> k.tier, status |-> k.status,
               providerPaymentId |-> k.providerPaymentId, createdAt |-> t,
               completedAt |-> {t + s : s \in k.completedIn}], 1)
    /\ res' = NoResponse
    /\ UNCHANGED <<selectedPeriod, clock, users, accounts, messageLogs, requestLogs, userCredits,
                   paymentRecords>>

\* A payment event is recorded. Kinds holds [providerPaymentId, status, amountCents].
InsertPaymentRecord(maxWrites, Kinds, Times) ==
    /\ writes < maxWrites
    /\ writes' = writes + 1
    /\ \E u \in users, k \in Kinds, t \in Times :
          paymentRecords' = InsertRows(paymentRecords,
              [userId |-> u, providerPaymentId |-> k.providerPaymentId,
               status |-> k.status, amountCents |-> k.amountCents, createdAt |-> t],
              1)
    /\ res' = NoResponse
    /\ UNCHANGED <<selectedPeriod, clock, users, accounts, messageLogs, requestLogs, userCredits,
                   paymentIntents>>

\* Time passes.
Tick(maxTicks, step) ==
    /\ clock + step <= Now0 + maxTicks * step
    /\ clock' = clock + step
    /\ res' = NoResponse
    /\ UNCHANGED <<selectedPeriod, tables, writes>>

\* ------------------------------------------------------- period resolution

Periods == {"7d", "30d", "90d", "1y"}

\* daysBack with a year of 366 days.
daysBackLeapYear(period) ==
    CASE period = "7d" -> 7
      [] period = "30d" -> 30
      [] period = "90d" -> 90
      [] period = "1y" -> 366

daysBack(period) ==
    CASE period = "7d" -> 7
      [] period = "30d" -> 30
      [] period = "90d" -> 90
      [] period = "1y" -> 365

\* getDateRange, given the one reading of the clock it makes.
getDateRange(period, now) ==
    [startDate |-> now - daysBack(period) * 24 * 60 * 60, endDate |-> now]

\* The half-open interval [startDate, endDate).
InPeriodHalfOpen(t, range) == t >= range.startDate /\ t < range.endDate

\* and(gte(createdAt, startDate), lte(createdAt, endDate))
InPeriod(t, range) == t >= range.startDate /\ t <= range.endDate

\* ------------------------------------------------------- input validation

Endpoints ==
    {"userGrowth", "userRetention", "userEngagement", "authenticationPatterns",
     "messageVolume", "userSegmentation", "conversionFunnel", "revenueMetrics",
     "paymentAnalysis", "systemHealth", "rateLimitingImpact"}

\* The z.enum of each procedure's input; a procedure declared without .input
\* takes none.
NoInput == {"authenticationPatterns", "userSegmentation"}
\* One enum of all four periods shared by every procedure.
periodEnumShared(endpoint) == {"7d", "30d", "90d", "1y"}

periodEnum(endpoint) ==
    CASE endpoint = "userGrowth" -> {"7d", "30d", "90d", "1y"}
      [] endpoint \in {"userRetention", "userEngagement", "messageVolume",
                       "systemHealth", "rateLimitingImpact"} -> {"7d", "30d", "90d"}
      [] endpoint \in {"conversionFunnel", "revenueMetrics", "paymentAnalysis"} ->
             {"30d", "90d", "1y"}

\* z.object({ period: z.enum([...]) }).parse succeeds.
inputParses(endpoint, input) ==
    IF endpoint \in NoInput THEN TRUE ELSE input \in periodEnum(endpoint)

\* ------------------------------------------------------------ SQL helpers

\* The rows of a table one by one: copy i of row r stands for one generated id.
Phys(B) == UNION {{[row |-> r, id |-> i] : i \in 1..B[r]} : r \in DOMAIN B}

\* GROUP BY Key with count(*): the keys that occur, each with its row count.
GroupCount(B, Key(_)) ==
    [k \in {Key(r) : r \in DOMAIN B} |->
        CountRows(Where(B, LAMBDA r : Key(r) = k))]

\* ORDER BY count DESC LIMIT n over the groups of counts (key -> count): the
\* lists the query can return. Groups with the same count come in any order.
RECURSIVE OrderByCountDesc(_, _)
OrderByCountDesc(counts, n) ==
    IF n = 0 \/ DOMAIN counts = {} THEN {<<>>}
    ELSE LET top == {k \in DOMAIN counts : \A j \in DOMAIN counts : counts[j] <= counts[k]}
         IN UNION {{<<[key |-> k, count |-> counts[k]]>> \o rest :
                       rest \in OrderByCountDesc(
                           [j \in DOMAIN counts \ {k} |-> counts[j]], n - 1)} :
                   k \in top}

\* L LEFT JOIN R ON On: every pair that matches, and every row of L that matches
\* nothing with NULL for R's columns.
LeftJoin(L, R, On(_, _)) ==
    {[l |-> l, r |-> Some(r)] : <<l, r>> \in {x \in L \X R : On(x[1], x[2])}}
    \cup {[l |-> l, r |-> Null] : l \in {y \in L : \A r \in R : ~On(y, r)}}

\* DATE(createdAt) and EXTRACT(HOUR FROM createdAt), the session's zone being UTC.
DateOf(t) == t \div (24 * 60 * 60)
HourOf(t) == (t % (24 * 60 * 60)) \div (60 * 60)

Max(a, b) == IF a >= b THEN a ELSE b
Min(a, b) == IF a <= b THEN a ELSE b
\* Math.ceil(a / b) for b > 0.
Ceil(a, b) == -((-a) \div b)

\* The percentage without its guard.
unguardedPercent(cond, num, den) == toFixed2(JsMul(JsDiv(Num(num), den), 100))

\* cond ? ((num / den) * 100).toFixed(2) : "0"
guardedPercent(cond, num, den) ==
    IF cond THEN toFixed2(JsMul(JsDiv(Num(num), den), 100)) ELSE Literal0

\* ----------------------------------------------------------- user analytics

\* A jitter of a half of the average.
jitterCountsOfHalf(avg) == (avg \div 2) .. ((3 * avg) \div 2)

\* The values Math.floor(avg * (0.8 + Math.random() * 0.4)) can take, with
\* Math.random() in [0, 1): the factor is below 1.2, and the product in
\* floating point rounds to the integer 1.2 * avg at the top of the range.
jitterCounts(avg) == ((4 * avg) \div 5) .. ((6 * avg) \div 5)

\* userGrowth with the rate taken over the total.
userGrowthOverTotal(period, now, now2, counts) ==
    LET totalUsers == Cardinality(users)
        newUsersInPeriod == SumFn(counts)
    IN [dailySignups |-> counts,
        totalUsers |-> totalUsers,
        newUsersInPeriod |-> newUsersInPeriod,
        growthRate |->
            guardedPercent(totalUsers # 0, newUsersInPeriod, Max(totalUsers, 1))]

\* userGrowth: now2 is the second reading of the clock (new Date() of the
\* elapsed-days line), counts the synthesized count of each bucket.
userGrowthDays(period, now, now2) ==
    Ceil(now2 - getDateRange(period, now).startDate, 60 * 60 * 24)
avgDailySignups(period, now, now2) ==
    Cardinality(users) \div Max(userGrowthDays(period, now, now2), 1)
userGrowth(period, now, now2, counts) ==
    LET totalUsers == Cardinality(users)
        newUsersInPeriod == SumFn(counts)
    IN [dailySignups |-> counts,
        totalUsers |-> totalUsers,
        newUsersInPeriod |-> newUsersInPeriod,
        growthRate |->
            IF totalUsers # 0
            THEN toFixed2(JsMul(JsDiv(Num(newUsersInPeriod),
                                      Max(totalUsers - newUsersInPeriod, 1)), 100))
            ELSE Literal0]

\* userRetention: fixed rates applied to the user count; the period is unused.
userRetention ==
    LET userCount == Cardinality(users)
        rate(days) == IF days = 1 THEN 85 ELSE IF days = 7 THEN 45 ELSE 25
    IN [retentionData |->
           [i \in 1..3 |->
               LET days == <<1, 7, 30>>[i]
               IN [day |-> days,
                   retentionRate |-> toFixed2(Num(rate(days))),
                   retainedCount |-> (userCount * rate(days)) \div 100,
                   totalNewUsers |-> userCount]]]

\* userEngagement. messagesPerUser holds every group; the response keeps the
\* first 20 in descending order of count.
\* messagesPerUser.slice(0, 20)
MessagesPerUserLimit == 20

\* The messagesPerUser query: the userId groups of the messages of the period
\* with their counts (users.id is the primary key, so users.name adds no group).
messagesPerUserCounts(range) ==
    GroupCount(Where(messageLogs, LAMBDA r : InPeriod(r.createdAt, range)),
               LAMBDA r : r.userId)

\* The first 20 rows of the query in the orders ORDER BY count DESC allows.
messagesPerUserTop(range) ==
    {[i \in DOMAIN top |-> [userId |-> top[i].key, messageCount |-> top[i].count]] :
        top \in OrderByCountDesc(messagesPerUserCounts(range), MessagesPerUserLimit)}

\* The average and the total taken from the rows that are returned.
userEngagementOfTop(range) ==
    LET inPeriod == Where(messageLogs, LAMBDA r : InPeriod(r.createdAt, range))
        dates == {DateOf(r.createdAt) : r \in DOMAIN inPeriod}
        dailyActiveUsers ==
            [d \in dates |->
                Cardinality({r.userId : r \in
                    {x \in DOMAIN inPeriod : DateOf(x.createdAt) = d}})]
    IN {[messagesPerUser |-> top,
         dailyActiveUsers |-> dailyActiveUsers,
         avgMessagesPerUser |->
             IF Len(top) > 0
             THEN toFixed2(JsDiv(Num(SumFn([i \in DOMAIN top |->
                                               top[i].messageCount])), Len(top)))
             ELSE Literal0,
         totalActiveUsers |-> Len(top)] : top \in messagesPerUserTop(range)}

\* The bundles the procedure can return, one for each list of messagesPerUser.
userEngagement(range) ==
    LET inPeriod == Where(messageLogs, LAMBDA r : InPeriod(r.createdAt, range))
        messagesPerUser == messagesPerUserCounts(range)
        dates == {DateOf(r.createdAt) : r \in DOMAIN inPeriod}
        length == Cardinality(DOMAIN messagesPerUser)
        dailyActiveUsers ==
            [d \in dates |->
                Cardinality({r.userId : r \in
                    {x \in DOMAIN inPeriod : DateOf(x.createdAt) = d}})]
        avgMessages ==
            IF length > 0
            THEN toFixed2(JsDiv(Num(SumFn(messagesPerUser)), length))
            ELSE Literal0
    IN {[messagesPerUser |-> top,
         dailyActiveUsers |-> dailyActiveUsers,
         avgMessagesPerUser |-> avgMessages,
         totalActiveUsers |-> length] : top \in messagesPerUserTop(range)}

\* The percentages taken of the number of users.
authenticationPatternsOfUsers ==
    LET providerStats == GroupCount(accounts, LAMBDA r : r.provider)
        totalAccounts == SumFn(providerStats)
    IN [providerStats |->
           [p \in DOMAIN providerStats |->
               [count |-> providerStats[p],
                percentage |-> guardedPercent(totalAccounts > 0,
                                              providerStats[p], Cardinality(users))]],
        totalAccounts |-> totalAccounts]

authenticationPatterns ==
    LET providerStats == GroupCount(accounts, LAMBDA r : r.provider)
        totalAccounts == SumFn(providerStats)
    IN [providerStats |->
           [p \in DOMAIN providerStats |->
               [count |-> providerStats[p],
                percentage |-> guardedPercent(totalAccounts > 0,
                                              providerStats[p], totalAccounts)]],
        totalAccounts |-> totalAccounts]

\* ------------------------------------------------- usage and behaviour

\* ORDER BY DATE(createdAt), EXTRACT(HOUR FROM createdAt) of a set of
\* <<date, hour>> groups.
RECURSIVE OrderByDateHour(_)
OrderByDateHour(K) ==
    IF K = {} THEN <<>>
    ELSE LET m == CHOOSE x \in K :
                     \A y \in K : x[1] < y[1] \/ (x[1] = y[1] /\ x[2] <= y[2])
         IN <<m>> \o OrderByDateHour(K \ {m})

\* The rows of the dailyMessages query.
dailyMessagesRows(range) ==
    LET inPeriod == Where(messageLogs, LAMBDA r : InPeriod(r.createdAt, range))
        groups ==
            GroupCount(inPeriod,
                       LAMBDA r : <<DateOf(r.createdAt), HourOf(r.createdAt)>>)
        keys == OrderByDateHour(DOMAIN groups)
    IN [i \in DOMAIN keys |->
           [date |-> keys[i][1], count |-> groups[keys[i]], hour |-> keys[i][2]]]

\* messageVolume with the number of buckets as its total.
messageVolumeOfBuckets(range) ==
    LET inPeriod == Where(messageLogs, LAMBDA r : InPeriod(r.createdAt, range))
        dailyMessages == dailyMessagesRows(range)
    IN [dailyMessages |-> dailyMessages,
        hourlyStats |-> GroupCount(inPeriod, LAMBDA r : HourOf(r.createdAt)),
        totalMessages |-> Len(dailyMessages)]

messageVolume(range) ==
    LET inPeriod == Where(messageLogs, LAMBDA r : InPeriod(r.createdAt, range))
        dailyMessages == dailyMessagesRows(range)
    IN [dailyMessages |-> dailyMessages,
        hourlyStats |-> GroupCount(inPeriod, LAMBDA r : HourOf(r.createdAt)),
        totalMessages |->
            SumFn([i \in DOMAIN dailyMessages |-> dailyMessages[i].count])]

\* hasPaid only for a payment that succeeded.
hasPaidSucceeded(paymentRecord) ==
    \E p \in paymentRecord : p.row.status = "succeeded"

\* CASE WHEN paymentRecords.id IS NOT NULL THEN true ELSE false END
hasPaid(paymentRecord) == paymentRecord # Null

\* Heavy from 10 messages on.
isHeavyFromTen(totalMessages) == totalMessages >= 10

\* user.totalMessages > 10
isHeavy(totalMessages) == totalMessages > 10

\* The query grouped by the user and the balance alone: the messages are
\* counted once for each PaymentRecord joined.
userSegmentsByUser ==
    LET credits == {[userId |-> u, balance |-> userCredits[u]] : u \in DOMAIN userCredits}
        j1 == LeftJoin(users, credits, LAMBDA u, c : u = c.userId)
        j2 == LeftJoin(j1, Phys(messageLogs), LAMBDA j, m : j.l = m.row.userId)
        j3 == LeftJoin(j2, Phys(paymentRecords), LAMBDA j, p : j.l.l = p.row.userId)
        key(j) == [userId |-> j.l.l.l, credits |-> {c.balance : c \in j.l.l.r}]
    IN {[userId |-> k.userId,
         credits |-> k.credits,
         paymentRecordId |-> Null,
         totalMessages |-> Cardinality({j \in j3 : key(j) = k /\ j.l.r # Null}),
         hasPaid |-> \E j \in j3 : key(j) = k /\ hasPaid(j.r)] :
            k \in {key(j) : j \in j3}}

\* The groups of userSegmentation's query: User left-joined to UserCredit,
\* MessageLog and PaymentRecord, grouped by the user, the balance and
\* PaymentRecord.id.
userSegments ==
    LET credits == {[userId |-> u, balance |-> userCredits[u]] : u \in DOMAIN userCredits}
        j1 == LeftJoin(users, credits, LAMBDA u, c : u = c.userId)
        j2 == LeftJoin(j1, Phys(messageLogs), LAMBDA j, m : j.l = m.row.userId)
        j3 == LeftJoin(j2, Phys(paymentRecords), LAMBDA j, p : j.l.l = p.row.userId)
        key(j) == [userId |-> j.l.l.l,
                   credits |-> {c.balance : c \in j.l.l.r},
                   paymentRecordId |-> j.r]
    IN {[userId |-> k.userId,
         credits |-> k.credits,
         paymentRecordId |-> k.paymentRecordId,
         totalMessages |-> Cardinality({j \in j3 : key(j) = k /\ j.l.r # Null}),
         hasPaid |-> hasPaid(k.paymentRecordId)] : k \in {key(j) : j \in j3}}

userSegmentation ==
    LET segments == userSegments
        freeUsers == {s \in segments : ~s.hasPaid}
        paidUsers == {s \in segments : s.hasPaid}
        heavyUsers == {s \in segments : isHeavy(s.totalMessages)}
        \* user.totalMessages <= 10
        lightUsers == {s \in segments : s.totalMessages <= 10}
    IN [freeUsers |-> Cardinality(freeUsers),
        paidUsers |-> Cardinality(paidUsers),
        heavyUsers |-> Cardinality(heavyUsers),
        lightUsers |-> Cardinality(lightUsers),
        segments |-> [free |-> freeUsers, paid |-> paidUsers,
                      heavy |-> heavyUsers, light |-> lightUsers]]

\* --------------------------------------------------------- revenue analytics

\* The sum of F over the rows of a bag.
SumBy(B, F(_)) == SumFn([r \in DOMAIN B |-> B[r] * F(r)])

\* TO_CHAR(createdAt, 'YYYY-MM') as the number YYYYMM (proleptic Gregorian
\* calendar, UTC).
MonthOf(t) ==
    LET z == DateOf(t) + 719468
        era == z \div 146097
        doe == z - era * 146097
        yoe == (doe - doe \div 1460 + doe \div 36524 - doe \div 146096) \div 365
        doy == doe - (365 * yoe + yoe \div 4 - yoe \div 100)
        mp == (5 * doy + 2) \div 153
        m == IF mp < 10 THEN mp + 3 ELSE mp - 9
        y == yoe + era * 400 + (IF m <= 2 THEN 1 ELSE 0)
    IN y * 100 + m

\* The four rates with every rate above 100 cut to 100.
conversionRatesClamped(totalRegistrations, firstMessage, paymentIntent, completedPayment) ==
    [registrationToFirstMessage |->
        guardedPercent(totalRegistrations > 0,
                       Min(firstMessage, totalRegistrations), totalRegistrations),
     firstMessageToPaymentIntent |->
        guardedPercent(firstMessage > 0, Min(paymentIntent, firstMessage),
                       firstMessage),
     paymentIntentToCompletion |->
        guardedPercent(paymentIntent > 0, Min(completedPayment, paymentIntent),
                       paymentIntent),
     overallConversion |->
        guardedPercent(totalRegistrations > 0,
                       Min(completedPayment, totalRegistrations),
                       totalRegistrations)]

\* The four rates of the funnel.
conversionRates(totalRegistrations, firstMessage, paymentIntent, completedPayment) ==
    [registrationToFirstMessage |->
        guardedPercent(totalRegistrations > 0, firstMessage, totalRegistrations),
     firstMessageToPaymentIntent |->
        guardedPercent(firstMessage > 0, paymentIntent, firstMessage),
     paymentIntentToCompletion |->
        guardedPercent(paymentIntent > 0, completedPayment, paymentIntent),
     overallConversion |->
        guardedPercent(totalRegistrations > 0, completedPayment, totalRegistrations)]

\* The four queries of the funnel: the count of User, and the userId groups of
\* MessageLog, PaymentIntent and succeeded PaymentRecord in the period.
totalUsersCount == Cardinality(users)
firstMessageUsers(range) ==
    {r.userId : r \in {x \in DOMAIN messageLogs : InPeriod(x.createdAt, range)}}
paymentIntentUsers(range) ==
    {r.userId : r \in {x \in DOMAIN paymentIntents : InPeriod(x.createdAt, range)}}
\* The same without the filter on the status.
completedPaymentUsersAnyStatus(range) ==
    {r.userId : r \in {x \in DOMAIN paymentRecords : InPeriod(x.createdAt, range)}}
completedPaymentUsers(range) ==
    {r.userId : r \in {x \in DOMAIN paymentRecords :
                          InPeriod(x.createdAt, range) /\ x.status = "succeeded"}}

conversionFunnel(range) ==
    LET totalRegistrations == totalUsersCount
        firstMessage == Cardinality(firstMessageUsers(range))
        paymentIntent == Cardinality(paymentIntentUsers(range))
        completedPayment == Cardinality(completedPaymentUsers(range))
    IN [registrations |-> totalRegistrations,
        firstMessage |-> firstMessage,
        paymentIntent |-> paymentIntent,
        completedPayment |-> completedPayment,
        conversionRates |->
            conversionRates(totalRegistrations, firstMessage, paymentIntent,
                            completedPayment)]

\* The elements of a set of numbers in ascending order.
RECURSIVE SortAsc(_)
SortAsc(S) ==
    IF S = {} THEN <<>>
    ELSE LET m == CHOOSE x \in S : \A y \in S : x <= y
         IN <<m>> \o SortAsc(S \ {m})

\* (x / k / 100).toFixed(2) for integers x >= 0 and k > 0. When x / k is
\* a half-integer the quotient by 100 is not a binary fraction: the double lies
\* just below or just above the tie, and toFixed prints the hundredth on its
\* side.
toFixed2OfHundredth(x, k) ==
    IF (2 * x) % k = 0 /\ ((2 * x) \div k) % 2 = 1
    THEN {[kind |-> "fixed2", h |-> x \div k], [kind |-> "fixed2", h |-> x \div k + 1]}
    ELSE {toFixed2(JsDiv(JsDiv(Num(x), k), 100))}

\* The rows of the monthly revenue query without the filter on the status.
monthlyRevenueRowsAnyStatus(range) ==
    Where(paymentRecords, LAMBDA r : InPeriod(r.createdAt, range))

\* The rows of the monthly revenue query: succeeded payments of the period.
monthlyRevenueRows(range) ==
    Where(paymentRecords,
          LAMBDA r : InPeriod(r.createdAt, range) /\ r.status = "succeeded")

\* One group for each succeeded payment instead of each paying user.
uniquePayingUsersPerPayment(range) ==
    {<<p.row.userId, p.id>> :
        p \in {q \in Phys(paymentRecords) :
                  InPeriod(q.row.createdAt, range) /\ q.row.status = "succeeded"}}

\* The userId groups of the succeeded payments of the period.
uniquePayingUsers(range) ==
    {r.userId : r \in {x \in DOMAIN paymentRecords :
                          InPeriod(x.createdAt, range) /\ x.status = "succeeded"}}

\* The bundles the procedure can return (one, or two when arpu is at a tie).
revenueMetrics(range) ==
    LET succeeded == monthlyRevenueRows(range)
        months == SortAsc({MonthOf(r.createdAt) : r \in DOMAIN succeeded})
        ofMonth(m) == Where(succeeded, LAMBDA r : MonthOf(r.createdAt) = m)
        monthlyRevenue ==
            [i \in DOMAIN months |->
                [month |-> months[i],
                 revenue |-> SumBy(ofMonth(months[i]), LAMBDA r : r.amountCents),
                 transactions |-> CountRows(ofMonth(months[i]))]]
        totalRevenue == SumFn([i \in DOMAIN months |-> monthlyRevenue[i].revenue])
        length == Cardinality(uniquePayingUsers(range))
    IN {[monthlyRevenue |->
            [i \in DOMAIN months |->
                [month |-> monthlyRevenue[i].month,
                 revenue |-> monthlyRevenue[i].revenue,
                 transactions |-> monthlyRevenue[i].transactions,
                 revenueInCurrency |->
                     toFixed2(JsDiv(Num(monthlyRevenue[i].revenue), 100))]],
         totalRevenue |-> toFixed2(JsDiv(Num(totalRevenue), 100)),
         arpu |-> arpu,
         uniquePayingUsers |-> length] :
            arpu \in IF length > 0 THEN toFixed2OfHundredth(totalRevenue, length)
                     ELSE {Literal0}}

paymentAnalysis(range) ==
    LET joined ==
            {j \in LeftJoin(Phys(paymentIntents), Phys(paymentRecords),
                            LAMBDA i, r : i.row.providerPaymentId
                                          = Some(r.row.providerPaymentId)) :
                InPeriod(j.l.row.createdAt, range)}
        tiers == {j.l.row.tier : j \in joined}
        totalAttempts(t) == Cardinality({j \in joined : j.l.row.tier = t})
        successful(t) ==
            Cardinality({j \in joined :
                /\ j.l.row.tier = t
                /\ \E r \in j.r : r.row.status = "succeeded"})
        processingTimes ==
            {i \in Phys(paymentIntents) :
                InPeriod(i.row.createdAt, range) /\ i.row.status = "completed"}
        \* payment.timeToComplete ?? 0
        timeToComplete(i) ==
            IF i.row.completedAt = Null THEN 0
            ELSE (CHOOSE c \in i.row.completedAt : TRUE) - i.row.createdAt
        length == Cardinality(processingTimes)
    IN [tierStats |->
           [t \in tiers |->
               [totalAttempts |-> totalAttempts(t),
                successful |-> successful(t),
                successRate |-> guardedPercent(totalAttempts(t) > 0,
                                               successful(t), totalAttempts(t))]],
        averageProcessingTime |->
            IF length > 0
            THEN toFixed2(JsDiv(JsDiv(
                     Num(SumFn([i \in processingTimes |-> timeToComplete(i)])),
                     length), 60))
            ELSE Literal0,
        processingTimes |-> length]

\* ----------------------------------------------------- operational analytics

\* The rows of RequestLog in the period.
requestLogsInPeriod(range) ==
    Where(requestLogs, LAMBDA r : InPeriod(r.createdAt, range))

\* successfulRequests as count(*) without the CASE.
apiStatsCountingAll(range) ==
    LET inPeriod == requestLogsInPeriod(range)
        totalRequests(a) == CountRows(Where(inPeriod, LAMBDA r : r.action = a))
    IN [a \in {r.action : r \in DOMAIN inPeriod} |->
           [totalRequests |-> totalRequests(a),
            successfulRequests |-> totalRequests(a)]]

\* The apiStats query: the rows of the period grouped by action.
apiStats(range) ==
    LET inPeriod == requestLogsInPeriod(range)
    IN [a \in {r.action : r \in DOMAIN inPeriod} |->
           [totalRequests |->
                CountRows(Where(inPeriod, LAMBDA r : r.action = a)),
            successfulRequests |->
                CountRows(Where(inPeriod,
                                LAMBDA r : r.action = a /\ r.success = TRUE))]]

\* .limit(10) of the errorPatterns query.
ErrorPatternsLimit == 10

\* The query without its limit.
errorPatternsUnlimited(range) ==
    LET failed == Where(requestLogsInPeriod(range), LAMBDA r : r.success = FALSE)
        groups == GroupCount(failed, LAMBDA r : <<r.error, r.statusCode>>)
    IN OrderByCountDesc(groups, Cardinality(DOMAIN groups))

\* The errorPatterns query: the lists of [key |-> <<error, statusCode>>, count]
\* it can return.
errorPatterns(range) ==
    LET failed == Where(requestLogsInPeriod(range), LAMBDA r : r.success = FALSE)
    IN OrderByCountDesc(GroupCount(failed, LAMBDA r : <<r.error, r.statusCode>>),
                        ErrorPatternsLimit)

\* The bundles the procedure can return, one for each list of errorPatterns.
systemHealth(range) ==
    LET stats == apiStats(range)
        withRate ==
            [a \in DOMAIN stats |->
                [totalRequests |-> stats[a].totalRequests,
                 successfulRequests |-> stats[a].successfulRequests,
                 successRate |-> guardedPercent(stats[a].totalRequests > 0,
                                                stats[a].successfulRequests,
                                                stats[a].totalRequests)]]
        totalRequests == SumFn([a \in DOMAIN stats |-> stats[a].totalRequests])
    IN {[apiStats |-> withRate,
         errorPatterns |-> patterns,
         totalRequests |-> totalRequests] : patterns \in errorPatterns(range)}

\* The subsets of S with k elements.
RECURSIVE KSubsets(_, _)
KSubsets(S, k) ==
    IF k = 0 THEN {{}}
    ELSE {T \in {D \cup {x} : D \in KSubsets(S, k - 1), x \in S} :
             Cardinality(T) = k}

\* list.slice(0, n) of a list that holds the rows S in an order the query does
\* not fix (no ORDER BY): the sets of rows that can be kept.
SliceOf(S, n) ==
    IF Cardinality(S) <= n THEN {S}
    ELSE {S \ D : D \in KSubsets(S, Cardinality(S) - n)}

\* The limit hit from 6 messages on.
limitHitAboveFive(messageCount) == messageCount > 5

\* day.messageCount >= 5
limitHit(messageCount) == messageCount >= 5

\* The rows of dailyLimitHits.
DailyLimitHitsLimit == 50

\* The groups (userId, date) of the messages in the range, with their counts.
dailyMessageCounts(range) ==
    GroupCount(Where(messageLogs, LAMBDA r : InPeriod(r.createdAt, range)),
               LAMBDA r : <<r.userId, DateOf(r.createdAt)>>)
usersHittingLimits(range) ==
    LET counts == dailyMessageCounts(range)
    IN {k \in DOMAIN counts : limitHit(counts[k])}

\* The counts taken from the rows that are returned.
rateLimitingImpactOfSlice(range) ==
    LET counts == dailyMessageCounts(range)
        hits == usersHittingLimits(range)
    IN {[totalDaysWithLimitHits |-> Cardinality(slice),
         uniqueUsersAffected |-> Cardinality({k[1] : k \in slice}),
         averageMessagesOnLimitDays |->
             IF Cardinality(slice) > 0
             THEN toFixed2(JsDiv(Num(SumFn([k \in slice |-> counts[k]])),
                                 Cardinality(slice)))
             ELSE Literal0,
         dailyLimitHits |-> [k \in slice |-> counts[k]]] :
            slice \in SliceOf(hits, DailyLimitHitsLimit)}

\* The bundles the procedure can return: one for each set of rows that
\* usersHittingLimits.slice(0, 50) can keep.
rateLimitingImpact(range) ==
    LET counts == dailyMessageCounts(range)
        hits == usersHittingLimits(range)
        uniqueUsersHittingLimits == {k[1] : k \in hits}
        length == Cardinality(hits)
        averageMessagesOnLimitDays ==
            IF length > 0
            THEN toFixed2(JsDiv(Num(SumFn([k \in hits |-> counts[k]])), length))
            ELSE Literal0
        uniqueUsersAffected == Cardinality(uniqueUsersHittingLimits)
    IN {[totalDaysWithLimitHits |-> length,
         uniqueUsersAffected |-> uniqueUsersAffected,
         averageMessagesOnLimitDays |-> averageMessagesOnLimitDays,
         dailyLimitHits |-> [k \in slice |-> counts[k]]] :
            slice \in SliceOf(hits, DailyLimitHitsLimit)}

\* ------------------------------------------------------------ the requests

\* publicProcedure: the procedure builder every analytics procedure is made
\* with. It admits a caller with or without a session.
publicProcedure(session) == TRUE

\* The number of queries a resolver sends to the store.
storeQueries(endpoint) ==
    CASE endpoint \in {"userGrowth", "userRetention", "authenticationPatterns",
                       "userSegmentation", "rateLimitingImpact"} -> 1
      [] endpoint \in {"userEngagement", "messageVolume", "revenueMetrics",
                       "paymentAnalysis", "systemHealth"} -> 2
      [] endpoint = "conversionFunnel" -> 4

\* The resolvers that call getDateRange.
UsesDateRange == Endpoints \ {"userRetention", "authenticationPatterns", "userSegmentation"}

\* The bundles a resolver can return at clock reading now; drift is the time
\* from getDateRange's reading of the clock to userGrowth's second reading.
resolve(endpoint, input, now, drift) ==
    CASE endpoint = "userGrowth" ->
             LET days == userGrowthDays(input, now, now + drift)
                 avg == avgDailySignups(input, now, now + drift)
             IN {userGrowth(input, now, now + drift, counts) :
                    counts \in [1..Min(days, 30) -> jitterCounts(avg)]}
      [] endpoint = "userRetention" -> {userRetention}
      [] endpoint = "userEngagement" -> userEngagement(getDateRange(input, now))
      [] endpoint = "authenticationPatterns" -> {authenticationPatterns}
      [] endpoint = "messageVolume" -> {messageVolume(getDateRange(input, now))}
      [] endpoint = "userSegmentation" -> {userSegmentation}
      [] endpoint = "conversionFunnel" -> {conversionFunnel(getDateRange(input, now))}
      [] endpoint = "revenueMetrics" -> revenueMetrics(getDateRange(input, now))
      [] endpoint = "paymentAnalysis" -> {paymentAnalysis(getDateRange(input, now))}
      [] endpoint = "systemHealth" -> systemHealth(getDateRange(input, now))
      [] endpoint = "rateLimitingImpact" ->
             rateLimitingImpact(getDateRange(input, now))

\* The response to one call of procedure analytics.<endpoint>.
Respond(session, endpoint, input, Drifts) ==
    /\ (endpoint \in NoInput) <=> (input = "none")
    /\ IF ~publicProcedure(session)
       THEN /\ res' = [op |-> endpoint, session |-> session, input |-> input,
                       status |-> "UNAUTHORIZED", reads |-> 0, range |-> Null,
                       body |-> [none |-> TRUE]]
            /\ UNCHANGED clock
       ELSE IF ~inputParses(endpoint, input)
       THEN /\ res' = [op |-> endpoint, session |-> session, input |-> input,
                       status |-> "BAD_REQUEST", reads |-> 0, range |-> Null,
                       body |-> [none |-> TRUE]]
            /\ UNCHANGED clock
       ELSE \E drift \in (IF endpoint = "userGrowth" THEN Drifts ELSE {0}) :
              \E body \in resolve(endpoint, input, clock, drift) :
                /\ res' = [op |-> endpoint, session |-> session, input |-> input,
                           status |-> "ok", reads |-> storeQueries(endpoint),
                           range |-> IF endpoint \in UsesDateRange
                                     THEN Some(getDateRange(input, clock))
                                     ELSE Null,
                           body |-> body]
                /\ clock' = clock + drift

\* A call that also logs itself in RequestLog.
RpcLoggingRequest(session, endpoint, input, Drifts) ==
    /\ Respond(session, endpoint, input, Drifts)
    /\ requestLogs' = InsertRows(requestLogs,
           [action |-> endpoint, statusCode |-> 200, success |-> TRUE,
            error |-> Null, createdAt |-> clock], 1)
    /\ UNCHANGED <<selectedPeriod, users, accounts, messageLogs, userCredits,
                   paymentIntents, paymentRecords, writes>>

\* One call of procedure analytics.<endpoint> over HTTP, from the dashboard or
\* from any other client: every resolver only selects.
Rpc(session, endpoint, input, Drifts) ==
    /\ Respond(session, endpoint, input, Drifts)
    /\ UNCHANGED <<selectedPeriod, tables, writes>>

\* GET /analytics: the page redirects a visitor without a session to the
\* sign-in route and renders the dashboard otherwise.
\* The error is taken for a reason to send the query once more, and the bundle
\* is returned.
rejectionRetried(session, endpoint, input, failing) ==
    [op |-> endpoint, session |-> session, input |-> input, status |-> "ok",
     reads |-> storeQueries(endpoint) + 1,
     range |-> IF endpoint \in UsesDateRange
               THEN Some(getDateRange(input, clock)) ELSE Null,
     body |-> CHOOSE b \in resolve(endpoint, input, clock, 0) : TRUE]

\* The store rejects the query that the resolver sends as its failing-th: the
\* await throws, no resolver has a try/catch, so the call ends in the error
\* and the rows of the queries before it are dropped with the resolver's frame.
rejection(session, endpoint, input, failing) ==
    [op |-> endpoint, session |-> session, input |-> input,
     status |-> "INTERNAL_SERVER_ERROR", reads |-> failing,
     range |-> IF endpoint \in UsesDateRange
               THEN Some(getDateRange(input, clock)) ELSE Null,
     body |-> [error |-> "store"]]

\* A call on a store that can reject a query. Failing holds the positions of
\* the query that is rejected, 0 for none.
RpcOnStore(session, endpoint, input, Failing) ==
    \E failing \in Failing :
        IF failing = 0 \/ ~publicProcedure(session) \/ ~inputParses(endpoint, input)
        THEN Rpc(session, endpoint, input, {0})
        ELSE /\ (endpoint \in NoInput) <=> (input = "none")
             /\ failing <= storeQueries(endpoint)
             /\ res' = rejection(session, endpoint, input, failing)
             /\ UNCHANGED <<selectedPeriod, clock, tables, writes>>

\* The counts of a funnel call in progress after its k-th query, with every
\* later count cut to the registrations that the first query counted.
funnelAfterQueryClipped(partial, k, range) ==
    CASE k = 1 -> [registrations |-> totalUsersCount]
      [] k = 2 -> [registrations |-> partial.registrations,
                   firstMessage |-> Min(Cardinality(firstMessageUsers(range)),
                                        partial.registrations)]
      [] k = 3 -> [registrations |-> partial.registrations,
                   firstMessage |-> partial.firstMessage,
                   paymentIntent |-> Min(Cardinality(paymentIntentUsers(range)),
                                         partial.registrations)]
      [] k = 4 -> [registrations |-> partial.registrations,
                   firstMessage |-> partial.firstMessage,
                   paymentIntent |-> partial.paymentIntent,
                   completedPayment |->
                       Min(Cardinality(completedPaymentUsers(range)),
                           partial.registrations)]

\* The locals of conversionFunnel after its k-th await: each query reads the
\* store as it is when the query runs (no transaction joins the four).
funnelAfterQuery(partial, k, range) ==
    CASE k = 1 -> [registrations |-> totalUsersCount]
      [] k = 2 -> [registrations |-> partial.registrations,
                   firstMessage |-> Cardinality(firstMessageUsers(range))]
      [] k = 3 -> [registrations |-> partial.registrations,
                   firstMessage |-> partial.firstMessage,
                   paymentIntent |-> Cardinality(paymentIntentUsers(range))]
      [] k = 4 -> [registrations |-> partial.registrations,
                   firstMessage |-> partial.firstMessage,
                   paymentIntent |-> partial.paymentIntent,
                   completedPayment |-> Cardinality(completedPaymentUsers(range))]

\* conversionFunnel is called: getDateRange reads the clock, no query is sent
\* yet.
FunnelBegin(session, input) ==
    /\ publicProcedure(session)
    /\ inputParses("conversionFunnel", input)
    /\ res' = [op |-> "conversionFunnel", session |-> session, input |-> input,
               status |-> "pending", reads |-> 0,
               range |-> Some(getDateRange(input, clock)),
               body |-> [none |-> TRUE]]
    /\ UNCHANGED <<selectedPeriod, clock, tables, writes>>

\* The next query of the call in progress is sent and answered; after the
\* fourth the rates are computed and the bundle is returned.
FunnelQuery ==
    /\ res.op = "conversionFunnel"
    /\ res.status = "pending"
    /\ LET range == CHOOSE r \in res.range : TRUE
           after == funnelAfterQuery(res.body, res.reads + 1, range)
       IN res' = [res EXCEPT
                     !.reads = @ + 1,
                     !.status = IF res.reads + 1 = 4 THEN "ok" ELSE "pending",
                     !.body = IF res.reads + 1 = 4
                              THEN [registrations |-> after.registrations,
                                    firstMessage |-> after.firstMessage,
                                    paymentIntent |-> after.paymentIntent,
                                    completedPayment |-> after.completedPayment,
                                    conversionRates |->
                                        conversionRates(after.registrations,
                                                        after.firstMessage,
                                                        after.paymentIntent,
                                                        after.completedPayment)]
                              ELSE after]
    /\ UNCHANGED <<selectedPeriod, clock, tables, writes>>

\* Another connection writes while the call is in progress: a user signs up,
\* or a message or a payment of a user is recorded with a createdAt of Times.
WriteDuringCall(maxUsers, maxWrites, Kinds, Times) ==
    /\ res.status = "pending"
    /\ \/ /\ Cardinality(users) < maxUsers
          /\ users' = users \cup {Cardinality(users) + 1}
          /\ UNCHANGED <<messageLogs, paymentRecords, writes>>
       \/ /\ writes < maxWrites
          /\ writes' = writes + 1
          /\ \E u \in users, t \in Times :
                messageLogs' = InsertRows(messageLogs,
                                          [userId |-> u, createdAt |-> t], 1)
          /\ UNCHANGED <<users, paymentRecords>>
       \/ /\ writes < maxWrites
          /\ writes' = writes + 1
          /\ \E u \in users, k \in Kinds, t \in Times :
                paymentRecords' = InsertRows(paymentRecords,
                    [userId |-> u, providerPaymentId |-> k.providerPaymentId,
                     status |-> k.status, amountCents |-> k.amountCents,
                     createdAt |-> t], 1)
          /\ UNCHANGED <<users, messageLogs>>
    /\ UNCHANGED <<selectedPeriod, clock, accounts, requestLogs, userCredits, paymentIntents, res>>

AnalyticsPage(session) ==
    /\ res' = [op |-> "AnalyticsPage", session |-> session, input |-> "none",
               status |-> IF session THEN "ok" ELSE "redirect",
               reads |-> 0, range |-> Null, body |-> [none |-> TRUE]]
    /\ UNCHANGED <<selectedPeriod, clock, tables, writes>>

\* ------------------------------------------------- the User Analytics view

\* The options of the view's period select.
UserAnalyticsOptions == {"7d", "30d", "90d", "1y"}

\* The procedures the view queries; all but authenticationPatterns with
\* { period }, which the type assertions of the view leave as it is.
UserAnalyticsQueries ==
    {"userGrowth", "userRetention", "userEngagement", "authenticationPatterns"}

\* onChange of the select: setPeriod(e.target.value as Period). The view
\* renders again and waits for the data of the new period.
setPeriod(value) ==
    /\ selectedPeriod' = value
    /\ res' = NoResponse
    /\ UNCHANGED <<clock, tables, writes>>

\* One useQuery of the view, sent with the selected period.
UserAnalyticsQuery(endpoint) ==
    Rpc(TRUE, endpoint,
        IF endpoint = "authenticationPatterns" THEN "none" ELSE selectedPeriod,
        {0})

\* The "Total Errors" figure of the Operational Analytics view:
\* systemHealth?.errorPatterns.reduce((sum, error) => sum + error.count, 0)
totalErrors(systemHealthData) ==
    SumFn([i \in DOMAIN systemHealthData.errorPatterns |->
              systemHealthData.errorPatterns[i].count])

\* ------------------------------------------------------- the specifications

\* What a client can send as the period.
Inputs == Periods \cup {"1d", "none"}

RequestOutcomes ==
    {[statusCode |-> 200, success |-> TRUE, error |-> Null],
     [statusCode |-> 500, success |-> FALSE, error |-> Some("upstream failed")]}
IntentKinds ==
    {[tier |-> "basic", status |-> "pending", providerPaymentId |-> Null,
      completedIn |-> Null],
     [tier |-> "basic", status |-> "completed", providerPaymentId |-> Some("pay_1"),
      completedIn |-> Some(120)]}
RecordKinds ==
    {[providerPaymentId |-> "pay_1", status |-> "succeeded", amountCents |-> 49900],
     [providerPaymentId |-> "pay_1", status |-> "failed", amountCents |-> 49900]}

Init ==
    /\ clock = Now0
    /\ users = {}
    /\ accounts = EmptyBag
    /\ messageLogs = EmptyBag
    /\ requestLogs = EmptyBag
    /\ userCredits = <<>>
    /\ paymentIntents = EmptyBag
    /\ paymentRecords = EmptyBag
    /\ res = NoResponse
    /\ writes = 0
    /\ selectedPeriod = "30d"

\* Every procedure and the page, over a small store. Requests are answered one
\* at a time: a response stays until the next write or tick.
Next ==
    \/ InsertUser(MaxUsers)
    \/ InsertAccount(MaxWrites, {"google"})
    \/ InsertMessageLog(MaxWrites, {clock}, {1})
    \/ InsertRequestLog(MaxWrites, {"chat"}, RequestOutcomes, {clock}, {1})
    \/ InsertUserCredit(MaxWrites, {5})
    \/ InsertPaymentIntent(MaxWrites, IntentKinds, {clock})
    \/ InsertPaymentRecord(MaxWrites, RecordKinds, {clock})
    \/ Tick(MaxTicks, Day)
    \/ res = NoResponse /\ \E session \in BOOLEAN : AnalyticsPage(session)
    \/ /\ res = NoResponse
       /\ \E session \in BOOLEAN, endpoint \in Endpoints, input \in Inputs :
             Rpc(session, endpoint, input, {0})

Spec == Init /\ [][Next]_vars

\* The period-filtered procedures over rows created at, just before and just
\* after the bounds of the 7d and 30d ranges of a clock that stands still. A row
\* can be later than the reading of the clock: createdAt is the database's
\* CURRENT_TIMESTAMP or a value the writer gives.
BoundaryTimes ==
    {Now0 - 30 * Day - 1, Now0 - 30 * Day, Now0 - 7 * Day - 1, Now0 - 7 * Day,
     Now0, Now0 + 1}
PeriodEndpoints ==
    {"userEngagement", "messageVolume", "conversionFunnel", "revenueMetrics",
     "paymentAnalysis", "systemHealth", "rateLimitingImpact"}
InitPeriod ==
    /\ clock = Now0
    /\ users = {1}
    /\ accounts = EmptyBag
    /\ messageLogs = EmptyBag
    /\ requestLogs = EmptyBag
    /\ userCredits = <<>>
    /\ paymentIntents = EmptyBag
    /\ paymentRecords = EmptyBag
    /\ res = NoResponse
    /\ writes = 0
    /\ selectedPeriod = "30d"
NextPeriod ==
    \/ InsertMessageLog(PeriodMaxWrites, BoundaryTimes, {1, 5})
    \/ InsertRequestLog(PeriodMaxWrites, {"chat"},
                        {o \in RequestOutcomes : ~o.success}, BoundaryTimes, {1})
    \/ InsertPaymentIntent(PeriodMaxWrites,
                           {k \in IntentKinds : k.status = "completed"}, BoundaryTimes)
    \/ InsertPaymentRecord(PeriodMaxWrites,
                           {k \in RecordKinds : k.status = "succeeded"}, BoundaryTimes)
    \/ /\ res = NoResponse
       /\ \E endpoint \in PeriodEndpoints, input \in Periods :
             Rpc(TRUE, endpoint, input, {0})
SpecPeriod == InitPeriod /\ [][NextPeriod]_vars

\* The funnel over messages, intents and payments of several users, created
\* inside the 30d range or a second before it.
FunnelTimes == {Now0 - 30 * Day - 1, Now0}
NextFunnel ==
    \/ InsertUser(FunnelMaxUsers)
    \/ InsertMessageLog(FunnelMaxWrites, FunnelTimes, {1})
    \/ InsertPaymentIntent(FunnelMaxWrites,
                           {k \in IntentKinds : k.status = "pending"}, FunnelTimes)
    \/ InsertPaymentRecord(FunnelMaxWrites, RecordKinds, FunnelTimes)
    \/ /\ res = NoResponse
       /\ \E input \in Periods : Rpc(TRUE, "conversionFunnel", input, {0})
SpecFunnel == Init /\ [][NextFunnel]_vars

\* The segmentation over users with up to 11 messages, credits and payments.
NextSeg ==
    \/ InsertUser(SegMaxUsers)
    \/ InsertMessageLog(SegMaxWrites, {clock}, {1, 10})
    \/ InsertUserCredit(SegMaxWrites, {5})
    \/ InsertPaymentRecord(SegMaxWrites, RecordKinds, {clock})
    \/ res = NoResponse /\ Rpc(TRUE, "userSegmentation", "none", {0})
SpecSeg == Init /\ [][NextSeg]_vars

\* ---------------------------------------------------------------- claims

\* C1: a caller without a session never receives the result of an analytics
\* procedure, through the page or by calling the procedure directly.
C1_OnlyAuthenticated ==
    (res.op \in Endpoints /\ res.status = "ok") => res.session

\* C2: a period outside the procedure's accepted set is rejected with a
\* validation error, no bundle is returned and no query reaches the store; a
\* period of the set is accepted.
C2_Accepts ==
    [userGrowth |-> {"7d", "30d", "90d", "1y"},
     userRetention |-> {"7d", "30d", "90d"},
     userEngagement |-> {"7d", "30d", "90d"},
     messageVolume |-> {"7d", "30d", "90d"},
     systemHealth |-> {"7d", "30d", "90d"},
     rateLimitingImpact |-> {"7d", "30d", "90d"},
     conversionFunnel |-> {"30d", "90d", "1y"},
     revenueMetrics |-> {"30d", "90d", "1y"},
     paymentAnalysis |-> {"30d", "90d", "1y"}]
C2_PeriodValidated ==
    res.op \in DOMAIN C2_Accepts =>
        IF res.input \in C2_Accepts[res.op]
        THEN res.status = "ok" /\ res.reads > 0
        ELSE /\ res.status = "BAD_REQUEST"
             /\ res.reads = 0
             /\ res.body = [none |-> TRUE]
C2_Witness ==
    /\ res.op = "userRetention"
    /\ res.input = "1y"
    /\ res.status = "BAD_REQUEST"
    /\ writes > 0

\* C3: a step that answers an analytics procedure leaves every table as it was.
C3_NoWrites ==
    [][res'.op \in Endpoints => tables' = tables]_vars
C3_Witness ==
    /\ res.op = "systemHealth"
    /\ res.status = "ok"
    /\ requestLogs # EmptyBag

\* C4: every ratio of a bundle is the string "0" when its denominator is zero
\* and a two-decimal number otherwise, never NaN or Infinity.
C4_IsRatio(x) == x.kind \in {"0", "fixed2"}
C4_Guarded(x, den) == C4_IsRatio(x) /\ (den = 0 => x = Literal0)
C4_RatiosGuarded ==
    res.status = "ok" =>
        LET b == res.body IN
        /\ res.op = "authenticationPatterns" =>
               \A p \in DOMAIN b.providerStats :
                   C4_Guarded(b.providerStats[p].percentage, b.totalAccounts)
        /\ res.op = "userEngagement" =>
               C4_Guarded(b.avgMessagesPerUser, b.totalActiveUsers)
        /\ res.op = "conversionFunnel" =>
               /\ C4_Guarded(b.conversionRates.registrationToFirstMessage,
                             b.registrations)
               /\ C4_Guarded(b.conversionRates.firstMessageToPaymentIntent,
                             b.firstMessage)
               /\ C4_Guarded(b.conversionRates.paymentIntentToCompletion,
                             b.paymentIntent)
               /\ C4_Guarded(b.conversionRates.overallConversion, b.registrations)
        /\ res.op = "revenueMetrics" => C4_Guarded(b.arpu, b.uniquePayingUsers)
        /\ res.op = "paymentAnalysis" =>
               /\ \A t \in DOMAIN b.tierStats :
                      C4_Guarded(b.tierStats[t].successRate,
                                 b.tierStats[t].totalAttempts)
               /\ C4_Guarded(b.averageProcessingTime, b.processingTimes)
        /\ res.op = "systemHealth" =>
               \A a \in DOMAIN b.apiStats :
                   C4_Guarded(b.apiStats[a].successRate, b.apiStats[a].totalRequests)
        /\ res.op = "rateLimitingImpact" =>
               C4_Guarded(b.averageMessagesOnLimitDays, b.totalDaysWithLimitHits)
        /\ res.op = "userGrowth" => C4_Guarded(b.growthRate, b.totalUsers)
C4_Witness ==
    /\ res.op = "conversionFunnel"
    /\ res.status = "ok"
    /\ res.body.firstMessage = 0
    /\ res.body.paymentIntent > 0
    /\ res.body.conversionRates.firstMessageToPaymentIntent = Literal0

\* C5: the range a resolver gets from getDateRange ends at the clock's reading
\* and starts exactly 7, 30, 90 or 365 days of 86,400 s before that reading.
C5_Days == [p \in Periods |->
               IF p = "7d" THEN 7 ELSE IF p = "30d" THEN 30
               ELSE IF p = "90d" THEN 90 ELSE 365]
C5_DateRange ==
    [][(res'.status = "ok" /\ res'.op \in UsesDateRange) =>
          res'.range = {[startDate |-> clock - C5_Days[res'.input] * 86400,
                         endDate |-> clock]}]_vars
C5_Witness ==
    /\ res.op = "conversionFunnel"
    /\ res.input = "1y"
    /\ res.range = {[startDate |-> clock - 365 * 86400, endDate |-> clock]}
    /\ clock > Now0

\* C6: every period-filtered query counts exactly the rows created in the
\* closed interval [startDate, endDate]: a row created at startDate or at
\* endDate is counted, a row before startDate or after endDate is not.
C6_Rows(B) ==
    {p \in Phys(B) : \E r \in res.range :
        r.startDate <= p.row.createdAt /\ p.row.createdAt <= r.endDate}
C6_InclusiveBounds ==
    (res.status = "ok" /\ res.op \in PeriodEndpoints) =>
        LET b == res.body
            msgs == C6_Rows(messageLogs)
            intents == C6_Rows(paymentIntents)
            paid == {p \in C6_Rows(paymentRecords) : p.row.status = "succeeded"}
            reqs == C6_Rows(requestLogs)
            perDay(k) ==
                Cardinality({p \in msgs :
                    <<p.row.userId, DateOf(p.row.createdAt)>> = k})
            days == {<<p.row.userId, DateOf(p.row.createdAt)>> : p \in msgs}
        IN
        /\ res.op = "userEngagement" =>
               /\ SumFn([i \in DOMAIN b.messagesPerUser |->
                            b.messagesPerUser[i].messageCount]) = Cardinality(msgs)
               /\ SumFn(b.dailyActiveUsers) = Cardinality(days)
        /\ res.op = "messageVolume" =>
               /\ b.totalMessages = Cardinality(msgs)
               /\ SumFn(b.hourlyStats) = Cardinality(msgs)
        /\ res.op = "conversionFunnel" =>
               /\ b.firstMessage = Cardinality({p.row.userId : p \in msgs})
               /\ b.paymentIntent = Cardinality({p.row.userId : p \in intents})
               /\ b.completedPayment = Cardinality({p.row.userId : p \in paid})
        /\ res.op = "revenueMetrics" =>
               /\ SumFn([m \in DOMAIN b.monthlyRevenue |->
                            b.monthlyRevenue[m].transactions]) = Cardinality(paid)
               /\ b.uniquePayingUsers = Cardinality({p.row.userId : p \in paid})
        /\ res.op = "paymentAnalysis" =>
               /\ b.processingTimes =
                      Cardinality({p \in intents : p.row.status = "completed"})
               /\ SumFn([t \in DOMAIN b.tierStats |-> b.tierStats[t].totalAttempts])
                      = SumFn([i \in intents |->
                            Max(1, Cardinality({r \in Phys(paymentRecords) :
                                {r.row.providerPaymentId}
                                    = i.row.providerPaymentId}))])
        /\ res.op = "systemHealth" =>
               /\ b.totalRequests = Cardinality(reqs)
               /\ SumFn([i \in DOMAIN b.errorPatterns |-> b.errorPatterns[i].count])
                      = Cardinality({p \in reqs : ~p.row.success})
        /\ res.op = "rateLimitingImpact" =>
               b.dailyLimitHits = [k \in {d \in days : perDay(d) >= 5} |-> perDay(k)]
C6_Witness ==
    /\ res.op = "rateLimitingImpact"
    /\ res.input = "30d"
    /\ res.status = "ok"
    /\ \E u \in users :
          /\ [userId |-> u, createdAt |-> clock - 30 * 86400] \in DOMAIN messageLogs
          /\ [userId |-> u, createdAt |-> clock] \in DOMAIN messageLogs
    /\ res.body.totalDaysWithLimitHits = 2

\* C7: in userSegmentation every user is in exactly one of the free and paid
\* lists and in exactly one of the heavy and light lists, so that
\* freeUsers + paidUsers = heavyUsers + lightUsers = the number of User rows.
C7_Rows(list, u) == Cardinality({s \in list : s.userId = u})
C7_OneRowPerUser ==
    (res.op = "userSegmentation" /\ res.status = "ok") =>
        LET b == res.body IN
        /\ b.freeUsers + b.paidUsers = Cardinality(users)
        /\ b.heavyUsers + b.lightUsers = Cardinality(users)
        /\ \A u \in users :
              /\ C7_Rows(b.segments.free, u) + C7_Rows(b.segments.paid, u) = 1
              /\ C7_Rows(b.segments.heavy, u) + C7_Rows(b.segments.light, u) = 1

\* C8: in userSegmentation a user with more than 10 MessageLog rows is heavy and
\* not light, a user with 10 or fewer (10 exactly, or none) is light and not
\* heavy.
C8_Messages(u) == Cardinality({p \in Phys(messageLogs) : p.row.userId = u})
C8_HeavyAboveTen ==
    (res.op = "userSegmentation" /\ res.status = "ok") =>
        \A u \in users :
            LET heavy == C7_Rows(res.body.segments.heavy, u) > 0
                light == C7_Rows(res.body.segments.light, u) > 0
            IN IF C8_Messages(u) >= 11 THEN heavy /\ ~light ELSE light /\ ~heavy
C8_Witness ==
    /\ res.op = "userSegmentation"
    /\ res.status = "ok"
    /\ \E u, v \in users :
          /\ C8_Messages(u) = 10
          /\ C8_Messages(v) = 11
          /\ C7_Rows(res.body.segments.light, u) = 1
          /\ C7_Rows(res.body.segments.heavy, v) = 1
    /\ res.body.heavyUsers = 1

C10_In(t) == \E r \in res.range : r.startDate <= t /\ t <= r.endDate
C10_FunnelCounts ==
    (res.op = "conversionFunnel" /\ res.status = "ok") =>
        /\ res.body.registrations = Cardinality(users)
        /\ res.body.firstMessage =
               Cardinality({u \in users : \E r \in DOMAIN messageLogs :
                   r.userId = u /\ C10_In(r.createdAt)})
        /\ res.body.paymentIntent =
               Cardinality({u \in users : \E r \in DOMAIN paymentIntents :
                   r.userId = u /\ C10_In(r.createdAt)})
        /\ res.body.completedPayment =
               Cardinality({u \in users : \E r \in DOMAIN paymentRecords :
                   r.userId = u /\ C10_In(r.createdAt) /\ r.status = "succeeded"})
C10_Witness ==
    /\ res.op = "conversionFunnel"
    /\ res.input = "30d"
    /\ res.status = "ok"
    /\ res.body.registrations = 2
    /\ res.body.completedPayment = 1
    /\ \E r, f \in DOMAIN paymentRecords :
          /\ r.status = "succeeded" /\ C10_In(r.createdAt)
          /\ f.status = "failed" /\ C10_In(f.createdAt)
          /\ f.userId # r.userId


\* C11: the funnel rates are not clamped: each is numerator / denominator x 100
\* rounded to 2 decimals ("0" when the denominator is 0), so a later stage
\* larger than a positive earlier one gives a rate above 100.
C11_Rate(num, den) ==
    IF den > 0
    THEN [kind |-> "fixed2", h |-> (20000 * num + den) \div (2 * den)]
    ELSE Literal0
C11_RatesUnclamped ==
    (res.op = "conversionFunnel" /\ res.status = "ok") =>
        LET b == res.body
            r == b.conversionRates
        IN
        /\ r.registrationToFirstMessage = C11_Rate(b.firstMessage, b.registrations)
        /\ r.firstMessageToPaymentIntent = C11_Rate(b.paymentIntent, b.firstMessage)
        /\ r.paymentIntentToCompletion = C11_Rate(b.completedPayment, b.paymentIntent)
        /\ r.overallConversion = C11_Rate(b.completedPayment, b.registrations)
        /\ (b.paymentIntent > b.firstMessage /\ b.firstMessage > 0)
              => r.firstMessageToPaymentIntent.h > 10000
        /\ (b.completedPayment > b.paymentIntent /\ b.paymentIntent > 0)
              => r.paymentIntentToCompletion.h > 10000
C11_Witness ==
    /\ res.op = "conversionFunnel"
    /\ res.status = "ok"
    /\ res.body.firstMessage = 1
    /\ res.body.paymentIntent = 2
    /\ res.body.conversionRates.firstMessageToPaymentIntent
           = [kind |-> "fixed2", h |-> 20000]


\* The limit hits of two users: user 1 sent 5 messages on each of the LimitDays
\* days before today, and both users add 1 or 4 at a time to yesterday's.
InitLimit ==
    /\ clock = Now0
    /\ users = {1, 2}
    /\ accounts = EmptyBag
    /\ messageLogs =
           [r \in {[userId |-> 1, createdAt |-> Now0 - k * Day] : k \in 1..LimitDays}
               |-> 5]
    /\ requestLogs = EmptyBag
    /\ userCredits = <<>>
    /\ paymentIntents = EmptyBag
    /\ paymentRecords = EmptyBag
    /\ res = NoResponse
    /\ writes = 0
    /\ selectedPeriod = "30d"
NextLimit ==
    \/ InsertMessageLog(LimitMaxWrites, {clock - Day}, {1, 4})
    \/ /\ res = NoResponse
       /\ \E input \in Periods : Rpc(TRUE, "rateLimitingImpact", input, {0})
SpecLimit == InitLimit /\ [][NextLimit]_vars

\* C12: in rateLimitingImpact a (user, date) pair is a limit-hit day exactly if
\* the user has at least 5 MessageLog rows of that date in the interval: 5
\* count, 4 do not.
C12_Count(u, d) ==
    SumFn([r \in {x \in DOMAIN messageLogs :
                   /\ x.userId = u
                   /\ DateOf(x.createdAt) = d
                   /\ C10_In(x.createdAt)} |-> messageLogs[r]])
C12_Days == {DateOf(r.createdAt) : r \in DOMAIN messageLogs}
C12_Hits == {k \in users \X C12_Days : C12_Count(k[1], k[2]) > 4}
C12_LimitHitFromFive ==
    (res.op = "rateLimitingImpact" /\ res.status = "ok") =>
        LET hits == C12_Hits IN
        /\ res.body.totalDaysWithLimitHits = Cardinality(hits)
        /\ DOMAIN res.body.dailyLimitHits \subseteq hits
        /\ Cardinality(hits) <= DailyLimitHitsLimit
              => DOMAIN res.body.dailyLimitHits = hits
C12_Witness ==
    /\ res.op = "rateLimitingImpact"
    /\ res.input = "7d"
    /\ res.status = "ok"
    /\ C12_Count(1, DateOf(clock) - 1) = 5
    /\ C12_Count(2, DateOf(clock) - 1) = 4
    /\ <<1, DateOf(clock) - 1>> \in DOMAIN res.body.dailyLimitHits
    /\ <<2, DateOf(clock) - 1>> \notin DOMAIN res.body.dailyLimitHits
    /\ res.body.totalDaysWithLimitHits = 7


\* C13: in rateLimitingImpact totalDaysWithLimitHits is the number of limit-hit
\* (user, date) rows, not of distinct dates, uniqueUsersAffected the number of
\* distinct users among them (at most totalDaysWithLimitHits, and 0 exactly
\* when that is 0); dailyLimitHits holds at most 50 of the rows while both
\* counts cover all of them.
C13_LimitHitCounts ==
    (res.op = "rateLimitingImpact" /\ res.status = "ok") =>
        LET b == res.body
            hits == C12_Hits
        IN
        /\ b.totalDaysWithLimitHits = Cardinality(hits)
        /\ b.uniqueUsersAffected = Cardinality({k[1] : k \in hits})
        /\ b.uniqueUsersAffected <= b.totalDaysWithLimitHits
        /\ (b.uniqueUsersAffected = 0) <=> (b.totalDaysWithLimitHits = 0)
        /\ Cardinality(DOMAIN b.dailyLimitHits)
               = Min(DailyLimitHitsLimit, b.totalDaysWithLimitHits)
        /\ \A k \in DOMAIN b.dailyLimitHits :
               k \in hits /\ b.dailyLimitHits[k] = C12_Count(k[1], k[2])
C13_Witness ==
    /\ res.op = "rateLimitingImpact"
    /\ res.status = "ok"
    /\ res.body.totalDaysWithLimitHits = DailyLimitHitsLimit + 1
    /\ Cardinality({k[2] : k \in C12_Hits}) = DailyLimitHitsLimit
    /\ res.body.uniqueUsersAffected = 2
    /\ Cardinality(DOMAIN res.body.dailyLimitHits) = DailyLimitHitsLimit


\* The revenue of up to RevenueMaxUsers users: succeeded payments of an even and
\* of an odd amount and a failed one, created at the start of the 30d range (in
\* January) or now (in February).
RevenueKinds ==
    {[providerPaymentId |-> "pay_1", status |-> "succeeded", amountCents |-> 49900],
     [providerPaymentId |-> "pay_2", status |-> "succeeded", amountCents |-> 999],
     [providerPaymentId |-> "pay_3", status |-> "failed", amountCents |-> 49900]}
RevenueTimes == {Now0 - 30 * Day, Now0}
NextRevenue ==
    \/ InsertUser(RevenueMaxUsers)
    \/ InsertPaymentRecord(RevenueMaxWrites, RevenueKinds, RevenueTimes)
    \/ /\ res = NoResponse
       /\ \E input \in Periods : Rpc(TRUE, "revenueMetrics", input, {0})
SpecRevenue == Init /\ [][NextRevenue]_vars

\* C14: in revenueMetrics the revenues of the month buckets add up to
\* totalRevenue x 100 and to the sum of amountCents over exactly the succeeded
\* PaymentRecord rows created in the interval, and the buckets are in ascending
\* order of year-month.
C14_Succeeded ==
    {p \in Phys(paymentRecords) :
        C10_In(p.row.createdAt) /\ p.row.status = "succeeded"}
C14_Cents == SumFn([p \in C14_Succeeded |-> p.row.amountCents])
C14_MonthlyRevenue ==
    (res.op = "revenueMetrics" /\ res.status = "ok") =>
        LET m == res.body.monthlyRevenue IN
        /\ SumFn([i \in DOMAIN m |-> m[i].revenue]) = C14_Cents
        /\ res.body.totalRevenue = [kind |-> "fixed2", h |-> C14_Cents]
        /\ \A i, j \in DOMAIN m : i < j => m[i].month < m[j].month
        /\ {m[i].month : i \in DOMAIN m}
               = {MonthOf(p.row.createdAt) : p \in C14_Succeeded}
C14_Witness ==
    /\ res.op = "revenueMetrics"
    /\ res.status = "ok"
    /\ Len(res.body.monthlyRevenue) = 2
    /\ res.body.monthlyRevenue[1].revenue = 999
    /\ res.body.monthlyRevenue[2].revenue = 49900
    /\ res.body.totalRevenue.h = 50899
    /\ \E r \in DOMAIN paymentRecords : r.status = "failed" /\ C10_In(r.createdAt)


\* C15: in revenueMetrics arpu is the succeeded revenue of the interval in
\* cents divided by the number of distinct users with a succeeded PaymentRecord
\* in the interval and by 100, rounded to 2 decimals (to a nearest hundredth);
\* uniquePayingUsers is that number of users and never exceeds the
\* transactions summed over the month buckets.
C15_Payers == {p.row.userId : p \in C14_Succeeded}
C15_Arpu ==
    (res.op = "revenueMetrics" /\ res.status = "ok") =>
        LET b == res.body
            n == Cardinality(C15_Payers)
            d == b.arpu.h * n - C14_Cents
        IN
        /\ b.uniquePayingUsers = n
        /\ n > 0 => /\ b.arpu.kind = "fixed2"
                    /\ 2 * d <= n
                    /\ 2 * d >= -n
        /\ b.uniquePayingUsers
               <= SumFn([i \in DOMAIN b.monthlyRevenue |->
                            b.monthlyRevenue[i].transactions])
C15_Witness ==
    /\ res.op = "revenueMetrics"
    /\ res.status = "ok"
    /\ res.body.uniquePayingUsers = 3
    /\ C14_Cents = 49900 + 49900 + 999
    /\ res.body.arpu = [kind |-> "fixed2", h |-> 33600]


\* The health of an API with HealthErrors kinds of error on record, the i-th
\* logged i times for action "chat"; 1, 5 or 100 requests of one outcome are
\* logged at a time for "chat" or "image".
InitHealth ==
    /\ clock = Now0
    /\ users = {1}
    /\ accounts = EmptyBag
    /\ messageLogs = EmptyBag
    /\ requestLogs =
           [r \in {[action |-> "chat", statusCode |-> 400 + i, success |-> FALSE,
                    error |-> Some("error"), createdAt |-> Now0 - i] :
                      i \in 1..HealthErrors} |-> r.statusCode - 400]
    /\ userCredits = <<>>
    /\ paymentIntents = EmptyBag
    /\ paymentRecords = EmptyBag
    /\ res = NoResponse
    /\ writes = 0
    /\ selectedPeriod = "30d"
NextHealth ==
    \/ InsertRequestLog(HealthMaxWrites, {"chat", "image"}, RequestOutcomes,
                        {clock}, {1, 5, 100})
    \/ /\ res = NoResponse
       /\ \E input \in Periods : Rpc(TRUE, "systemHealth", input, {0})
SpecHealth == InitHealth /\ [][NextHealth]_vars

\* C16: in systemHealth every action has totalRequests = its RequestLog rows in
\* the interval, successfulRequests = those with success = true (never more),
\* successRate = successfulRequests / totalRequests x 100 with 2 decimals (100
\* of 105 give 95.24), and the bundle's totalRequests is the sum over the
\* actions.
C16_Requests(a) ==
    SumFn([r \in {x \in DOMAIN requestLogs : x.action = a /\ C10_In(x.createdAt)}
              |-> requestLogs[r]])
C16_Successful(a) ==
    SumFn([r \in {x \in DOMAIN requestLogs :
                     x.action = a /\ C10_In(x.createdAt) /\ x.success}
              |-> requestLogs[r]])
C16_Actions == {r.action : r \in {x \in DOMAIN requestLogs : C10_In(x.createdAt)}}
C16_ApiStats ==
    (res.op = "systemHealth" /\ res.status = "ok") =>
        LET stats == res.body.apiStats IN
        /\ DOMAIN stats = C16_Actions
        /\ \A a \in DOMAIN stats :
              /\ stats[a].totalRequests = C16_Requests(a)
              /\ stats[a].successfulRequests = C16_Successful(a)
              /\ stats[a].successfulRequests <= stats[a].totalRequests
              /\ stats[a].successRate =
                     C11_Rate(stats[a].successfulRequests, stats[a].totalRequests)
        /\ res.body.totalRequests =
               SumFn([a \in DOMAIN stats |-> stats[a].totalRequests])
C16_Witness ==
    /\ res.op = "systemHealth"
    /\ res.status = "ok"
    /\ "image" \in DOMAIN res.body.apiStats
    /\ res.body.apiStats["image"] =
           [totalRequests |-> 105, successfulRequests |-> 100,
            successRate |-> [kind |-> "fixed2", h |-> 9524]]
    /\ res.body.totalRequests > 105


\* C17: in systemHealth errorPatterns holds only groups of failed RequestLog
\* rows of the interval, one entry for each (error, statusCode) pair that it
\* holds, in non-increasing order of count, never more than 10; no group left
\* out has a larger count than one that is included.
C17_Failed(key) ==
    SumFn([r \in {x \in DOMAIN requestLogs :
                     /\ ~x.success
                     /\ C10_In(x.createdAt)
                     /\ <<x.error, x.statusCode>> = key} |-> requestLogs[r]])
C17_Groups ==
    {<<x.error, x.statusCode>> :
        x \in {y \in DOMAIN requestLogs : ~y.success /\ C10_In(y.createdAt)}}
C17_ErrorPatterns ==
    (res.op = "systemHealth" /\ res.status = "ok") =>
        LET p == res.body.errorPatterns
            included == {p[i].key : i \in DOMAIN p}
        IN
        /\ included \subseteq C17_Groups
        /\ \A i \in DOMAIN p : p[i].count = C17_Failed(p[i].key)
        /\ \A i, j \in DOMAIN p : i < j =>
               p[i].key # p[j].key /\ p[i].count >= p[j].count
        /\ Len(p) <= 10
        /\ Len(p) = Min(10, Cardinality(C17_Groups))
        /\ \A out \in C17_Groups \ included, i \in DOMAIN p :
               C17_Failed(out) <= p[i].count
C17_Witness ==
    /\ res.op = "systemHealth"
    /\ res.status = "ok"
    /\ Cardinality(C17_Groups) = 11
    /\ Len(res.body.errorPatterns) = 10
    /\ res.body.errorPatterns[1].count = 10
    /\ res.body.errorPatterns[6].key = <<Some("upstream failed"), 500>>
    /\ res.body.errorPatterns[6].count = 5
    /\ res.body.errorPatterns[7].count = 5
    /\ \E r \in DOMAIN requestLogs : r.success /\ C10_In(r.createdAt)


\* The engagement of EngageUsers users, the i-th with i messages, and of one
\* more who signs up; each sends one message at a time.
InitEngage ==
    /\ clock = Now0
    /\ users = 1..EngageUsers
    /\ accounts = EmptyBag
    /\ messageLogs =
           [r \in {[userId |-> u, createdAt |-> Now0 - u] : u \in 1..EngageUsers}
               |-> r.userId]
    /\ requestLogs = EmptyBag
    /\ userCredits = <<>>
    /\ paymentIntents = EmptyBag
    /\ paymentRecords = EmptyBag
    /\ res = NoResponse
    /\ writes = 0
    /\ selectedPeriod = "30d"
NextEngage ==
    \/ InsertUser(EngageUsers + 1)
    \/ InsertMessageLog(EngageMaxWrites, {clock}, {1})
    \/ /\ res = NoResponse
       /\ \E input \in Periods : Rpc(TRUE, "userEngagement", input, {0})
SpecEngage == InitEngage /\ [][NextEngage]_vars

\* C18: in userEngagement messagesPerUser has at most 20 entries in
\* non-increasing order of messageCount, while totalActiveUsers is the number
\* of all users with a MessageLog in the interval and avgMessagesPerUser the
\* number of MessageLog rows in the interval divided by it, with 2 decimals.
C18_Messages(u) ==
    SumFn([r \in {x \in DOMAIN messageLogs : x.userId = u /\ C10_In(x.createdAt)}
              |-> messageLogs[r]])
C18_Active == {u \in users : C18_Messages(u) > 0}
C18_Rows == SumFn([u \in C18_Active |-> C18_Messages(u)])
C18_TopTwenty ==
    (res.op = "userEngagement" /\ res.status = "ok") =>
        LET b == res.body
            m == b.messagesPerUser
            n == Cardinality(C18_Active)
        IN
        /\ Len(m) <= 20
        /\ Len(m) = Min(20, n)
        /\ \A i \in DOMAIN m : m[i].messageCount = C18_Messages(m[i].userId)
        /\ \A i, j \in DOMAIN m : i < j =>
               m[i].userId # m[j].userId /\ m[i].messageCount >= m[j].messageCount
        /\ b.totalActiveUsers = n
        /\ b.avgMessagesPerUser =
               IF n > 0
               THEN [kind |-> "fixed2", h |-> (200 * C18_Rows + n) \div (2 * n)]
               ELSE Literal0
C18_Witness ==
    /\ res.op = "userEngagement"
    /\ res.status = "ok"
    /\ Len(res.body.messagesPerUser) = 20
    /\ res.body.totalActiveUsers = 21
    /\ C18_Rows = 211
    /\ res.body.avgMessagesPerUser = [kind |-> "fixed2", h |-> 1005]
    /\ res.body.messagesPerUser[20] = [userId |-> 21, messageCount |-> 1]


\* The accounts of up to AuthMaxUsers users with three providers.
AuthProviders == {"google", "github", "discord"}
NextAuth ==
    \/ InsertUser(AuthMaxUsers)
    \/ InsertAccount(AuthMaxWrites, AuthProviders)
    \/ /\ res = NoResponse
       /\ Rpc(TRUE, "authenticationPatterns", "none", {0})
SpecAuth == Init /\ [][NextAuth]_vars

\* C19: in authenticationPatterns totalAccounts is the number of Account rows;
\* when it is positive the percentages of the providers add up to 100 within
\* 0.005 for each provider, and when it is 0 every returned percentage is "0".
C19_Percentages ==
    (res.op = "authenticationPatterns" /\ res.status = "ok") =>
        LET b == res.body
            stats == b.providerStats
            sum == SumFn([p \in DOMAIN stats |-> stats[p].percentage.h])
            providers == Cardinality(DOMAIN stats)
        IN
        /\ b.totalAccounts = Cardinality(Phys(accounts))
        /\ DOMAIN stats = {r.provider : r \in DOMAIN accounts}
        /\ b.totalAccounts > 0 =>
               /\ \A p \in DOMAIN stats : stats[p].percentage.kind = "fixed2"
               /\ 2 * (sum - 10000) <= providers
               /\ 2 * (10000 - sum) <= providers
        /\ b.totalAccounts = 0 =>
               \A p \in DOMAIN stats : stats[p].percentage = Literal0
C19_Witness ==
    /\ res.op = "authenticationPatterns"
    /\ res.status = "ok"
    /\ res.body.totalAccounts = 3
    /\ DOMAIN res.body.providerStats = AuthProviders
    /\ \A p \in AuthProviders :
          res.body.providerStats[p].percentage = [kind |-> "fixed2", h |-> 3333]


\* Calls of every procedure on a store that can reject any one query.
NextFailure ==
    \/ InsertUser(FailureMaxUsers)
    \/ InsertMessageLog(FailureMaxWrites, {clock}, {1})
    \/ InsertPaymentRecord(FailureMaxWrites, RecordKinds, {clock})
    \/ /\ res = NoResponse
       /\ \E endpoint \in Endpoints, input \in Inputs :
             RpcOnStore(TRUE, endpoint, input, 0..4)
SpecFailure == Init /\ [][NextFailure]_vars

\* C20: no partial results: when a query of a bundle fails the call fails with
\* the error and returns no bundle, filled in part or from an earlier call;
\* no query is sent a second time and none is sent after the failure.
C20_NoPartialResults ==
    res.op \in Endpoints =>
        /\ res.status \in {"ok", "BAD_REQUEST", "INTERNAL_SERVER_ERROR"}
        /\ res.status = "INTERNAL_SERVER_ERROR" =>
               /\ res.body = [error |-> "store"]
               /\ res.reads \in 1..storeQueries(res.op)
        /\ res.status = "ok" =>
               /\ res.reads = storeQueries(res.op)
               /\ res.body \in resolve(res.op, res.input, clock, 0)
C20_Witness ==
    /\ res.op = "conversionFunnel"
    /\ res.input = "30d"
    /\ res.status = "INTERNAL_SERVER_ERROR"
    /\ res.reads = 3
    /\ users # {}
    /\ messageLogs # EmptyBag
    /\ res.body = [error |-> "store"]


\* The funnel query by query, with writes of other connections before and
\* between its queries.
NextSnapshot ==
    \/ res.status # "pending" /\ InsertUser(SnapshotMaxUsers)
    \/ res.status # "pending" /\ InsertMessageLog(SnapshotMaxWrites, {clock}, {1})
    \/ WriteDuringCall(SnapshotMaxUsers, SnapshotMaxWrites,
                       {k \in RecordKinds : k.status = "succeeded"}, {clock})
    \/ res = NoResponse /\ \E input \in Periods : FunnelBegin(TRUE, input)
    \/ FunnelQuery
SpecSnapshot == Init /\ [][NextSnapshot]_vars

\* C21: the four counts of conversionFunnel are not a snapshot: each query
\* counts the store as it is when that query runs, so with a write between
\* the queries the bundle can hold a combination no single state of the store
\* has, such as more firstMessage or completedPayment users than registrations
\* (in every single state the users of MessageLog and PaymentRecord rows are
\* User rows).
C21_Count(k, range) ==
    CASE k = 1 -> Cardinality(users)
      [] k = 2 -> Cardinality({r.userId : r \in {x \in DOMAIN messageLogs :
                      range.startDate <= x.createdAt /\ x.createdAt <= range.endDate}})
      [] k = 3 -> Cardinality({r.userId : r \in {x \in DOMAIN paymentIntents :
                      range.startDate <= x.createdAt /\ x.createdAt <= range.endDate}})
      [] k = 4 -> Cardinality({r.userId : r \in {x \in DOMAIN paymentRecords :
                      /\ range.startDate <= x.createdAt
                      /\ x.createdAt <= range.endDate
                      /\ x.status = "succeeded"}})
C21_Field ==
    <<"registrations", "firstMessage", "paymentIntent", "completedPayment">>
C21_NotASnapshot ==
    /\ [](/\ \A r \in DOMAIN messageLogs : r.userId \in users
          /\ \A r \in DOMAIN paymentRecords : r.userId \in users)
    /\ [][(res.op = "conversionFunnel" /\ res.status = "pending"
           /\ res'.op = "conversionFunnel" /\ res'.reads = res.reads + 1)
          => \A range \in res.range :
                res'.body[C21_Field[res'.reads]] = C21_Count(res'.reads, range)]_vars
C21_Witness ==
    /\ res.op = "conversionFunnel"
    /\ res.status = "ok"
    /\ res.reads = 4
    /\ res.body.registrations = 0
    /\ res.body.firstMessage = 1
    /\ res.body.completedPayment = 1
    /\ res.body.conversionRates.registrationToFirstMessage = Literal0


\* The growth of up to GrowthMaxUsers users in every period. The first call
\* can find the clock one tick later at its second reading than at the first.
NextGrowth ==
    \/ InsertUser(GrowthMaxUsers)
    \/ /\ res = NoResponse
       /\ \E input \in Periods :
             Rpc(TRUE, "userGrowth", input, IF clock = Now0 THEN {0, 1} ELSE {0})
SpecGrowth == Init /\ [][NextGrowth]_vars

\* The growth over 7 days of up to GrowthWeekMaxUsers users, on a clock that
\* stands still.
NextGrowthWeek ==
    \/ InsertUser(GrowthWeekMaxUsers)
    \/ res = NoResponse /\ Rpc(TRUE, "userGrowth", "7d", {0})
SpecGrowthWeek == Init /\ [][NextGrowthWeek]_vars

\* C22: in userGrowth dailySignups never has more than 30 buckets, every
\* bucket count lies between floor(0.8 x avg) and floor(1.2 x avg) for
\* avg = floor(totalUsers / max(days, 1)), days being the days elapsed since
\* startDate (rounded up), and newUsersInPeriod is the sum of the counts.
C22_Days ==
    LET start == (CHOOSE r \in res.range : TRUE).startDate
    IN (clock - start + 86399) \div 86400
C22_Avg == Cardinality(users) \div (IF C22_Days > 1 THEN C22_Days ELSE 1)
C22_DailySignups ==
    (res.op = "userGrowth" /\ res.status = "ok") =>
        LET s == res.body.dailySignups IN
        /\ DOMAIN s = 1..Cardinality(DOMAIN s)
        /\ Cardinality(DOMAIN s) <= 30
        /\ \A i \in DOMAIN s :
              /\ (8 * C22_Avg) \div 10 <= s[i]
              /\ s[i] <= (12 * C22_Avg) \div 10
        /\ res.body.newUsersInPeriod = SumFn(s)
C22_Witness ==
    /\ res.op = "userGrowth"
    /\ res.status = "ok"
    /\ res.input = "7d"
    /\ C22_Avg = 2
    /\ res.body.dailySignups[1] = 1
    /\ res.body.dailySignups[2] = 2
    /\ res.body.newUsersInPeriod = 11


\* C23: in userGrowth growthRate is newUsersInPeriod / max(totalUsers -
\* newUsersInPeriod, 1) x 100 with 2 decimals when there is a user, the
\* denominator being 1 when newUsersInPeriod >= totalUsers, and the string
\* "0" of the guard when totalUsers = 0.
C23_Hundredths ==
    LET n == res.body.newUsersInPeriod
        den == IF res.body.totalUsers - n > 1 THEN res.body.totalUsers - n ELSE 1
    IN (2 * 10000 * n + den) \div (2 * den)
C23_GrowthRate ==
    (res.op = "userGrowth" /\ res.status = "ok") =>
        /\ res.body.totalUsers = Cardinality(users)
        /\ res.body.growthRate =
              IF res.body.totalUsers = 0 THEN [kind |-> "0", h |-> 0]
              ELSE [kind |-> "fixed2", h |-> C23_Hundredths]
C23_Witness ==
    /\ res.op = "userGrowth"
    /\ res.status = "ok"
    /\ res.body.totalUsers = 7
    /\ res.body.newUsersInPeriod = 7
    /\ res.body.growthRate = [kind |-> "fixed2", h |-> 70000]

\* C23 as stated: the rate has 2 decimals for every totalUsers >= 0, 0 included.
C23_TwoDecimalsAlways ==
    (res.op = "userGrowth" /\ res.status = "ok") =>
        res.body.growthRate = [kind |-> "fixed2", h |-> C23_Hundredths]


\* C26: in userGrowth newUsersInPeriod never exceeds totalUsers, whatever the
\* period, the number of users and the jitter of each bucket.
C26_NewWithinTotal ==
    (res.op = "userGrowth" /\ res.status = "ok") =>
        res.body.newUsersInPeriod <= Cardinality(users)

\* C27: in userGrowth dailySignups has exactly min(N, 30) buckets for a
\* period of N days, however much the clock advances between the reading of
\* getDateRange and the reading of the elapsed days.
C27_BucketsOfPeriod ==
    (res.op = "userGrowth" /\ res.status = "ok") =>
        DOMAIN res.body.dailySignups =
            1..(IF C5_Days[res.input] < 30 THEN C5_Days[res.input] ELSE 30)


\* Payment intents and payment events of one user, and the payment analysis
\* of every period.
NextPayment ==
    \/ InsertUser(PaymentMaxUsers)
    \/ InsertPaymentIntent(PaymentMaxWrites, IntentKinds, {clock})
    \/ InsertPaymentRecord(PaymentMaxWrites, RecordKinds, {clock})
    \/ /\ res = NoResponse
       /\ \E input \in periodEnum("paymentAnalysis") :
             Rpc(TRUE, "paymentAnalysis", input, {0})
SpecPayment == Init /\ [][NextPayment]_vars

\* C24: in paymentAnalysis totalAttempts of every tier is the number of
\* PaymentIntent rows of the tier created in the interval, whatever the number
\* of PaymentRecord rows an intent's providerPaymentId matches; successful is
\* the number of joined rows with status succeeded, and successRate never
\* exceeds 100.
C24_Intents(t) ==
    LET range == CHOOSE r \in res.range : TRUE
    IN CountRows(Where(paymentIntents,
                       LAMBDA i : i.tier = t /\ InPeriod(i.createdAt, range)))
C24_Succeeded(t) ==
    LET range == CHOOSE r \in res.range : TRUE
        intents == {i \in Phys(paymentIntents) :
                       i.row.tier = t /\ InPeriod(i.row.createdAt, range)}
    IN Cardinality({<<i, r>> \in intents \X Phys(paymentRecords) :
                       /\ i.row.providerPaymentId = {r.row.providerPaymentId}
                       /\ r.row.status = "succeeded"})
C24_AttemptsAreIntents ==
    (res.op = "paymentAnalysis" /\ res.status = "ok") =>
        \A t \in {"basic"} :
            IF C24_Intents(t) = 0 THEN t \notin DOMAIN res.body.tierStats
            ELSE /\ t \in DOMAIN res.body.tierStats
                 /\ res.body.tierStats[t].totalAttempts = C24_Intents(t)
                 /\ res.body.tierStats[t].successful = C24_Succeeded(t)
                 /\ res.body.tierStats[t].successRate.kind = "fixed2"
                 /\ res.body.tierStats[t].successRate.h <= 10000


\* Messages of one user in two hours of one day, in the last hour of the day
\* before and before the shortest period, and the message volume of every
\* period.
VolumeTimes ==
    {Now0 - 8 * Day, Now0 - 2 * Day + 23 * 3600, Now0 - Day + 5 * 3600,
     Now0 - Day + 5 * 3600 + 60, Now0 - Day + 6 * 3600}
NextVolume ==
    \/ InsertUser(VolumeMaxUsers)
    \/ InsertMessageLog(VolumeMaxWrites, VolumeTimes, {1, 2})
    \/ /\ res = NoResponse
       /\ \E input \in periodEnum("messageVolume") :
             Rpc(TRUE, "messageVolume", input, {0})
SpecVolume == Init /\ [][NextVolume]_vars

\* C25: in messageVolume totalMessages is the sum of the dailyMessages counts
\* and the number of MessageLog rows created in the interval: each such row is
\* counted in exactly one (date, hour) bucket, every hour is in 0..23, and
\* dailyMessages is in ascending order of date, then hour.
C25_Rows ==
    LET range == CHOOSE r \in res.range : TRUE
    IN [r \in {x \in DOMAIN messageLogs :
                  x.createdAt >= range.startDate /\ x.createdAt <= range.endDate}
           |-> messageLogs[r]]
C25_InBucket(b) ==
    [r \in {x \in DOMAIN C25_Rows :
               /\ x.createdAt \div 86400 = b.date
               /\ (x.createdAt \div 3600) % 24 = b.hour} |-> C25_Rows[r]]
C25_Buckets ==
    (res.op = "messageVolume" /\ res.status = "ok") =>
        LET s == res.body.dailyMessages IN
        /\ res.body.totalMessages = SumFn([i \in DOMAIN s |-> s[i].count])
        /\ res.body.totalMessages = SumFn(C25_Rows)
        /\ \A i \in DOMAIN s :
              /\ s[i].hour \in 0..23
              /\ s[i].count = SumFn(C25_InBucket(s[i]))
        /\ \A r \in DOMAIN C25_Rows :
              Cardinality({i \in DOMAIN s : r \in DOMAIN C25_InBucket(s[i])}) = 1
        /\ \A i, j \in DOMAIN s :
              i < j => \/ s[i].date < s[j].date
                       \/ s[i].date = s[j].date /\ s[i].hour < s[j].hour
C25_Witness ==
    /\ res.op = "messageVolume"
    /\ res.status = "ok"
    /\ res.input = "7d"
    /\ res.body.totalMessages = 4
    /\ res.body.dailyMessages =
          <<[date |-> 398, count |-> 1, hour |-> 23],
            [date |-> 399, count |-> 3, hour |-> 5]>>


\* The User Analytics view over a small store: the select is changed and the
\* view sends its queries.
NextView ==
    \/ InsertUser(ViewMaxUsers)
    \/ InsertMessageLog(ViewMaxWrites, {clock - 8 * Day, clock}, {1})
    \/ \E value \in UserAnalyticsOptions : setPeriod(value)
    \/ \E endpoint \in UserAnalyticsQueries : UserAnalyticsQuery(endpoint)
SpecView == Init /\ [][NextView]_vars

\* C28: every period the select of the User Analytics view can set is
\* accepted by userGrowth, userRetention and userEngagement: after any
\* sequence of changes of the select no query of the view is rejected by the
\* validation of its input.
C28_SelectorAccepted ==
    /\ selectedPeriod \in {"7d", "30d", "90d", "1y"}
    /\ res.op \in {"userGrowth", "userRetention", "userEngagement"} =>
          /\ res.input = selectedPeriod
          /\ res.status # "BAD_REQUEST"


\* C29: the "Total Errors" figure of the Operational Analytics view, the sum
\* of the counts of the errorPatterns of systemHealth, is the number of failed
\* RequestLog rows of the selected period, whatever the number of distinct
\* (error, statusCode) pairs.
C29_FailedRows ==
    SumFn([r \in {x \in DOMAIN requestLogs : ~x.success /\ C10_In(x.createdAt)}
              |-> requestLogs[r]])
C29_TotalErrors ==
    (res.op = "systemHealth" /\ res.status = "ok") =>
        totalErrors(res.body) = C29_FailedRows


\* C30: in userSegmentation totalMessages of every returned row is the number
\* of MessageLog rows of the row's user, whatever the number of UserCredit and
\* PaymentRecord rows joined for the user.
C30_Returned ==
    UNION {res.body.segments[s] : s \in {"free", "paid", "heavy", "light"}}
C30_MessagesNotMultiplied ==
    (res.op = "userSegmentation" /\ res.status = "ok") =>
        /\ \A u \in users : \E s \in C30_Returned : s.userId = u
        /\ \A s \in C30_Returned :
              s.totalMessages =
                  SumFn([r \in {x \in DOMAIN messageLogs : x.userId = s.userId}
                            |-> messageLogs[r]])
C30_Witness ==
    /\ res.op = "userSegmentation"
    /\ res.status = "ok"
    /\ \E u \in DOMAIN userCredits :
          /\ Cardinality({p \in Phys(paymentRecords) : p.row.userId = u}) = 2
          /\ Cardinality({s \in C30_Returned : s.userId = u}) = 2
          /\ \A s \in C30_Returned : s.userId = u => s.totalMessages = 10

====
